---- MODULE Spec2Model ----
(***************************************************************************)
(* Model of app.py, a Streamlit portfolio page.  The script is re-run from *)
(* its first line on every user interaction; st.cache_data keeps the       *)
(* results of load_projects and load_experiences_with_ttl across runs.     *)
(* Strings are sequences of code points, JSON objects are records whose    *)
(* DOMAIN is the set of keys present.                                      *)
(***************************************************************************)
EXTENDS Integers, Sequences, FiniteSets, TLC

VARIABLES
    projects_json,      \* content of projects.json: Absent, Malformed or a list
    experiences_json,   \* content of experiences.json: Absent, Malformed or a list
    resume_pdf,         \* RESUME_PATH.exists()
    asset_files,        \* image file names that exist under assets/
    HAVE_PYMUPDF,       \* whether `import fitz` succeeds
    now,                \* wall clock, seconds
    ticks,              \* number of clock advances so far
    load_projects_cache,      \* st.cache_data entry of load_projects
    load_experiences_cache,   \* st.cache_data(ttl=60) entry of load_experiences_with_ttl
    reads,              \* how often each input file has been read
    pc,                 \* position of the script run
    projects,           \* module global `projects`
    experiences,        \* module global `experiences`
    page,               \* elements the run has put on the page, in order
    query,              \* module global `query` (sidebar text input)
    selected,           \* module global `selected` (sidebar multiselect)
    widgets,            \* values of the other widgets: toggle, radios, slider
    arg,                \* argument of the function under study
    ret                 \* its return value

vars == <<projects_json, experiences_json, resume_pdf, asset_files, HAVE_PYMUPDF,
          now, ticks, load_projects_cache, load_experiences_cache, reads, pc,
          projects, experiences, page, query, selected, widgets, arg, ret>>

env_vars == <<projects_json, experiences_json, resume_pdf, asset_files, HAVE_PYMUPDF,
              now, ticks>>

run_vars == <<load_projects_cache, load_experiences_cache, reads, pc,
              projects, experiences, page>>

(***************************************************************************)
(* Bounds                                                                  *)
(***************************************************************************)
MaxTitleLen == 2
MaxBlurbLen == 1
MaxQueryLen == 2
MaxProjects == 3
MaxTicks == 3
MaxReads == 2

(***************************************************************************)
(* Strings                                                                 *)
(***************************************************************************)
\* "A", "a", "b"
Chars == {65, 97, 98}

\* " "
SPACE == <<32>>

RECURSIVE StringsUpTo(_)
StringsUpTo(n) ==
    IF n = 0 THEN {<<>>}
    ELSE LET shorter == StringsUpTo(n - 1)
         IN  shorter \cup {Append(s, c) : s \in shorter, c \in Chars}

lower_char(c) == IF c >= 65 /\ c <= 90 THEN c + 32 ELSE c

lower_nofold(s) == s

\* str.lower()
lower(s) == IF s = <<>> THEN <<>> ELSE [i \in 1..Len(s) |-> lower_char(s[i])]

\* Python `q in text` on strings
contains(q, text) ==
    \E i \in 0..(Len(text) - Len(q)) : SubSeq(text, i + 1, i + Len(q)) = q

\* Python `a < b` on strings: lexicographic by code point
RECURSIVE str_lt(_, _)
str_lt(a, b) ==
    IF b = <<>> THEN FALSE
    ELSE IF a = <<>> THEN TRUE
    ELSE IF Head(a) # Head(b) THEN Head(a) < Head(b)
    ELSE str_lt(Tail(a), Tail(b))

str_le(a, b) == ~str_lt(b, a)

\* dict.get(k, default)
get(d, k, default) == IF k \in DOMAIN d THEN d[k] ELSE default

\* set(list)
set(s) == {s[i] : i \in 1..Len(s)}

(***************************************************************************)
(* Input domains                                                           *)
(***************************************************************************)
TagLists == {<<>>, <<"python", "viz">>, <<"ml">>}

Selections == {{}, {"viz"}, {"ml"}, {"python", "ml"}}

Titles == StringsUpTo(MaxTitleLen)

Blurbs == StringsUpTo(MaxBlurbLen)

Queries == StringsUpTo(MaxQueryLen) \cup {SPACE}

\* entries of projects.json: `title` required, the other keys optional
ProjectsOf(titles, blurbs, taglists) ==
    {[title |-> t] : t \in titles}
    \cup {[title |-> t, blurb |-> b] : t \in titles, b \in blurbs}
    \cup {[title |-> t, tags |-> g] : t \in titles, g \in taglists}
    \cup {[title |-> t, blurb |-> b, tags |-> g] :
              t \in titles, b \in blurbs, g \in taglists}

(***************************************************************************)
(* matches, app.py 83-93                                                   *)
(***************************************************************************)
searched_text_nosep(p) == p.title \o get(p, "blurb", <<>>)

\* line 90 before .lower(): p["title"] + " " + p.get("blurb", "")
searched_text(p) == p.title \o SPACE \o get(p, "blurb", <<>>)

tag_rule_off(p, sel) == FALSE

\* line 85: selected and not set(selected).intersection(set(p.get("tags", [])))
tag_rule_rejects(p, sel) ==
    sel # {} /\ (sel \cap set(get(p, "tags", <<>>))) = {}

matches(p, q, sel) ==
    IF tag_rule_rejects(p, sel) THEN FALSE
    ELSE IF q # <<>> /\ ~contains(lower(q), lower(searched_text(p))) THEN FALSE
    ELSE TRUE

(***************************************************************************)
(* Content store, app.py 22-39                                             *)
(***************************************************************************)
\* st.cache_data(ttl=60), line 34
TTL == 60

\* a file on disk: state is "absent", "malformed" (json.loads raises) or "ok"
File(state, data) == [state |-> state, data |-> data]

Absent == File("absent", <<>>)

Malformed == File("malformed", <<>>)

\* outcome of a function body: returned value, st elements emitted, exception raised
Outcome(value, elements, raised) ==
    [value |-> value, elements |-> elements, raised |-> raised]

\* lines 26-29
MissingProjectsError == [kind |-> "error", what |-> "Missing projects.json"]

Exception(type) == [kind |-> "exception", what |-> type]

title_key_nolower(d) == d.title

\* line 32: key=lambda d: d["title"].lower()
title_key(d) == lower(d.title)

\* insertion point of a stable sort: after every element whose key is <= x's
RECURSIVE insert_sorted(_, _)
insert_sorted(x, s) ==
    IF s = <<>> THEN <<x>>
    ELSE IF str_lt(title_key(x), title_key(Head(s))) THEN <<x>> \o s
    ELSE <<Head(s)>> \o insert_sorted(x, Tail(s))

\* sorted(data, key=...): stable, ascending
RECURSIVE sorted(_)
sorted(data) ==
    IF data = <<>> THEN <<>>
    ELSE insert_sorted(data[Len(data)], sorted(SubSeq(data, 1, Len(data) - 1)))

\* body of load_projects, lines 24-32
load_projects(pj) ==
    IF pj.state = "absent" THEN Outcome(<<>>, <<MissingProjectsError>>, "none")
    ELSE IF pj.state = "malformed" THEN Outcome(<<>>, <<>>, "JSONDecodeError")
    ELSE Outcome(sorted(pj.data), <<>>, "none")

\* body of load_experiences_with_ttl, lines 36-39
load_experiences_with_ttl(xp) ==
    IF xp.state = "absent" THEN Outcome(<<>>, <<>>, "none")
    ELSE IF xp.state = "malformed" THEN Outcome(<<>>, <<>>, "JSONDecodeError")
    ELSE Outcome(xp.data, <<>>, "none")

\* an st.cache_data entry: the returned value, the elements to replay, the load time
NoEntry == [present |-> FALSE, value |-> <<>>, elements |-> <<>>, loaded_at |-> 0]

Entry(value, elements, t) ==
    [present |-> TRUE, value |-> value, elements |-> elements, loaded_at |-> t]

cache_hit_never(entry, t) == FALSE

\* @st.cache_data, line 22: an entry never expires
cache_hit(entry, t) == entry.present

\* @st.cache_data(ttl=60), line 34: an entry is valid while younger than the ttl
cache_hit_ttl(entry, t) == entry.present /\ t < entry.loaded_at + TTL

\* a module global: unbound until its assignment has run
Unbound == [bound |-> FALSE, value |-> <<>>]

Bound(v) == [bound |-> TRUE, value |-> v]

(***************************************************************************)
(* Views, app.py 58-285.  A view is the sequence of elements it puts on    *)
(* the page.                                                               *)
(***************************************************************************)
El(kind, what) == [kind |-> kind, what |-> what]

RECURSIVE flatten(_)
flatten(ss) == IF ss = <<>> THEN <<>> ELSE Head(ss) \o flatten(Tail(ss))

min(a, b) == IF a < b THEN a ELSE b

\* min(4, len(links)), line 77
MaxLinks == 4

\* lines 61-67: the image, or a notice naming the file that is missing
card_image(p, assets) ==
    IF p.image \in assets
    THEN <<El("image", p.image)>>
    ELSE <<El("missing_image", p.image), El("caption_hint", "Place it under assets/")>>

\* lines 69-81
card_text(p) ==
    LET tags == get(p, "tags", <<>>)
        links == get(p, "links", <<>>)
    IN  <<El("subheader", p.title)>>
        \o (IF tags # <<>> THEN <<El("caption_tags", tags)>> ELSE <<>>)
        \o <<El("write", get(p, "blurb", <<>>))>>
        \o [i \in 1..min(MaxLinks, Len(links)) |-> El("link_button", links[i])]

\* render_card, lines 58-81
render_card(p, assets) == card_image(p, assets) \o card_text(p)

Spacer == El("markdown", "spacer")

\* line 96: [p for p in projects if matches(p)]
filtered_projects(projs, q, sel) == SelectSeq(projs, LAMBDA p : matches(p, q, sel))

\* line 104
showing(n, m) == El("showing", [showing |-> n, of |-> m])

\* render_showcase, lines 95-115; wide is st.session_state["wide"]
render_showcase(projs, q, sel, wide, assets) ==
    LET filtered == filtered_projects(projs, q, sel)
    IN  <<El("title", "Portfolio Showcase"), El("markdown", "intro"),
          showing(Len(filtered), Len(projs))>>
        \o [i \in 1..Len(filtered) |->
               El("card", [container |-> IF wide THEN (i - 1) % 2 ELSE 2,
                           body |-> render_card(filtered[i], assets) \o <<Spacer>>])]

\* render_resume, lines 117-171; mode is the radio's value, display_px the slider's
render_resume(exists, have_pymupdf, mode, display_px, n_pages) ==
    <<El("title", "Electronic Resume"), El("caption", "View inline")>>
    \o IF ~exists
       THEN <<El("error", "Resume file not found"), El("info", "Place your PDF")>>
       ELSE <<El("download_button", "resume.pdf"), El("viewer_radio", mode)>>
            \o IF mode = "Clean" /\ have_pymupdf
               THEN <<El("slider", display_px)>>
                    \o [i \in 1..n_pages |->
                           El("page_image", [page |-> i, scale |-> 2, width |-> display_px])]
               ELSE (IF mode = "Clean" THEN <<El("info", "install PyMuPDF")>> ELSE <<>>)
                    \o <<El("iframe", "resume.pdf")>>

\* lines 186-188 and 211-213: the image when its file exists, else nothing
experience_image(exp, assets) ==
    IF get(exp, "image", "") \in assets THEN <<El("image", exp.image)>> ELSE <<>>

\* lines 184-206
feature_record(exp, assets) ==
    LET date == get(exp, "date", "")
        tags == get(exp, "tags", <<>>)
        facts == get(exp, "facts", <<>>)
    IN  experience_image(exp, assets)
        \o <<El("heading", get(exp, "title", ""))>>
        \o (IF date # "" \/ tags # <<>>
            THEN <<El("caption_meta", [date |-> date, tags |-> tags])>> ELSE <<>>)
        \o (IF get(exp, "lede", "") # "" THEN <<El("lede", exp.lede)>> ELSE <<>>)
        \o (IF facts # <<>> THEN <<El("quick_facts", facts)>>
            ELSE <<>>)
        \o (IF get(exp, "body_md", "") # "" THEN <<El("body", exp.body_md)>> ELSE <<>>)
        \o <<El("divider", "")>>

\* lines 209-220
card_record(exp, assets) ==
    experience_image(exp, assets)
    \o <<El("subheader", get(exp, "title", ""))>>
    \o (IF get(exp, "date", "") # "" THEN <<El("caption_date", exp.date)>> ELSE <<>>)
    \o (IF get(exp, "lede", "") # "" THEN <<El("lede", exp.lede)>> ELSE <<>>)
    \o (IF get(exp, "body_md", "") # ""
        THEN <<El("read_more", exp.body_md)>> ELSE <<>>)
    \o <<Spacer>>

\* render_experiential, lines 173-220; mode is the radio's value
render_experiential(exps, mode, assets) ==
    <<El("title", "Experiential Learning"), El("caption", "Volunteer work")>>
    \o IF exps = <<>>
       THEN <<El("info", "Add items to experiences.json")>>
       ELSE <<El("layout_radio", mode)>>
            \o IF mode = "Feature"
               THEN flatten([i \in 1..Len(exps) |-> feature_record(exps[i], assets)])
               ELSE [i \in 1..Len(exps) |->
                        El("experience_card", [container |-> (i - 1) % 2,
                                               body |-> card_record(exps[i], assets)])]

\* render_reflections, lines 222-285
render_reflections(signature_exists) ==
    <<El("title", "I've always loved numbers"), El("markdown", "reflections")>>
    \o IF signature_exists
       THEN <<El("image", "signature1.png"), El("markdown", "Ralph Vincent Ta-asan")>>
       ELSE <<El("markdown", "Ralph Vincent Ta-asan")>>

(***************************************************************************)
(* Files the page is run against                                           *)
(***************************************************************************)
\* titles "b" and "A": the file lists them out of order
ProjectB ==
    [title |-> <<98>>, image |-> "b.png", blurb |-> <<97>>,
     tags |-> <<"python", "viz">>, links |-> <<"l1", "l2", "l3", "l4", "l5">>]

ProjectA == [title |-> <<65>>, image |-> "a.png"]

ProjectFiles ==
    {Absent, Malformed, File("ok", <<ProjectB, ProjectA>>), File("ok", <<ProjectA>>)}

ExperienceX ==
    [title |-> "Internship", image |-> "x.png", date |-> "2024",
     tags |-> <<"work">>, lede |-> "lede", facts |-> <<"f1", "f2">>,
     body |-> "long text"]

ExperienceY == [title |-> "Field trip", image |-> "y.png", body_md |-> "markdown"]

ExperienceFiles ==
    {Absent, Malformed, File("ok", <<>>), File("ok", <<ExperienceX>>),
     File("ok", <<ExperienceX, ExperienceY>>)}

AssetSets == {{}, {"a.png", "x.png"}}

(***************************************************************************)
(* The script run, app.py 41-44, and its environment                       *)
(***************************************************************************)
NoCall == [fn |-> "none"]

\* the widgets' values before the user touches them: toggle value=True (50),
\* radio index 0 (138, 181), slider value=900 (150)
WidgetDefaults == [wide |-> TRUE, viewer |-> "Clean", width |-> 900, layout |-> "Feature"]

\* the process has started and no run has happened yet
RunInit ==
    /\ now = 0
    /\ ticks = 0
    /\ load_projects_cache = NoEntry
    /\ load_experiences_cache = NoEntry
    /\ reads = [projects |-> 0, experiences |-> 0]
    /\ pc = "idle"
    /\ projects = Unbound
    /\ experiences = Unbound
    /\ page = <<>>
    /\ query = Unbound
    /\ selected = Unbound
    /\ widgets = WidgetDefaults

\* the page against every combination of files, with nobody editing them
PageInit ==
    /\ projects_json \in ProjectFiles
    /\ experiences_json \in ExperienceFiles
    /\ resume_pdf \in BOOLEAN
    /\ asset_files \in AssetSets
    /\ HAVE_PYMUPDF \in BOOLEAN
    /\ RunInit
    /\ arg = NoCall
    /\ ret = NoCall

\* the page while the two JSON files are edited and time passes
Init ==
    /\ projects_json \in ProjectFiles
    /\ experiences_json \in ExperienceFiles
    /\ resume_pdf = TRUE
    /\ asset_files = {}
    /\ HAVE_PYMUPDF = FALSE
    /\ RunInit
    /\ arg = NoCall
    /\ ret = NoCall

\* a user interaction (or the first request) runs the script from the top
Rerun ==
    /\ pc \in {"idle", "stopped"}
    /\ pc' = "line41"
    /\ page' = <<>>
    /\ projects' = Unbound
    /\ experiences' = Unbound
    /\ UNCHANGED <<env_vars, load_projects_cache, load_experiences_cache, reads,
                   query, selected, widgets, arg, ret>>

\* line 41: experiences = load_experiences_with_ttl()
Line41 ==
    /\ pc = "line41"
    /\ IF cache_hit_ttl(load_experiences_cache, now)
       THEN /\ experiences' = Bound(load_experiences_cache.value)
            /\ page' = page \o load_experiences_cache.elements
            /\ pc' = "line43"
            /\ UNCHANGED <<load_experiences_cache, reads>>
       ELSE LET out == load_experiences_with_ttl(experiences_json)
            IN  /\ reads.experiences < MaxReads
                /\ reads' = [reads EXCEPT !.experiences = @ + 1]
                /\ IF out.raised # "none"
                   THEN /\ load_experiences_cache' = NoEntry
                        /\ page' = page \o <<Exception(out.raised)>>
                        /\ pc' = "stopped"
                        /\ UNCHANGED experiences
                   ELSE /\ load_experiences_cache' = Entry(out.value, out.elements, now)
                        /\ experiences' = Bound(out.value)
                        /\ page' = page \o out.elements
                        /\ pc' = "line43"
    /\ UNCHANGED <<env_vars, load_projects_cache, projects, query, selected, widgets, arg, ret>>

\* line 43: projects = load_projects()
Line43 ==
    /\ pc = "line43"
    /\ IF cache_hit(load_projects_cache, now)
       THEN /\ projects' = Bound(load_projects_cache.value)
            /\ page' = page \o load_projects_cache.elements
            /\ pc' = "line44"
            /\ UNCHANGED <<load_projects_cache, reads>>
       ELSE LET out == load_projects(projects_json)
            IN  /\ reads.projects < MaxReads
                /\ reads' = [reads EXCEPT !.projects = @ + 1]
                /\ IF out.raised # "none"
                   THEN /\ load_projects_cache' = NoEntry
                        /\ page' = page \o <<Exception(out.raised)>>
                        /\ pc' = "stopped"
                        /\ UNCHANGED projects
                   ELSE /\ load_projects_cache' = Entry(out.value, out.elements, now)
                        /\ projects' = Bound(out.value)
                        /\ page' = page \o out.elements
                        /\ pc' = "line44"
    /\ UNCHANGED <<env_vars, load_experiences_cache, experiences, query, selected, widgets,
                   arg, ret>>

\* line 44: experiences = load_experiences() -- no such name is defined in the
\* module, so the call raises NameError and the run stops before the sidebar
\* (46-56), the function definitions (58-285) and the tabs (287-301)
Line44 ==
    /\ pc = "line44"
    /\ page' = page \o <<Exception("NameError")>>
    /\ pc' = "stopped"
    /\ UNCHANGED <<env_vars, load_projects_cache, load_experiences_cache, reads,
                   projects, experiences, query, selected, widgets, arg, ret>>

\* somebody edits, creates or deletes projects.json
EditProjectsJson ==
    /\ \E f \in ProjectFiles : f # projects_json /\ projects_json' = f
    /\ UNCHANGED <<experiences_json, resume_pdf, asset_files, HAVE_PYMUPDF, now, ticks,
                   run_vars, query, selected, widgets, arg, ret>>

\* somebody edits, creates or deletes experiences.json
EditExperiencesJson ==
    /\ \E f \in ExperienceFiles : f # experiences_json /\ experiences_json' = f
    /\ UNCHANGED <<projects_json, resume_pdf, asset_files, HAVE_PYMUPDF, now, ticks,
                   run_vars, query, selected, widgets, arg, ret>>

\* wall-clock time passes: one second, or one second short of the ttl
Tick ==
    /\ ticks < MaxTicks
    /\ \E d \in {1, TTL - 1} : now' = now + d
    /\ ticks' = ticks + 1
    /\ UNCHANGED <<projects_json, experiences_json, resume_pdf, asset_files,
                   HAVE_PYMUPDF, run_vars, query, selected, widgets, arg, ret>>

Run == Rerun \/ Line41 \/ Line43 \/ Line44

Next == Run \/ EditProjectsJson \/ EditExperiencesJson \/ Tick

Spec == Init /\ [][Next]_vars

SpecPage == PageInit /\ [][Run]_vars

(***************************************************************************)
(* The rest of the script, app.py 46-56 and 287-301, from the state a run  *)
(* would be in at line 46 with both globals bound                          *)
(***************************************************************************)
\* pages of the resume PDF
ResumePages == 2

\* line 54: sorted({t for p in projects for t in p.get("tags", [])}), as a set
all_tags(projs) == UNION {set(get(projs[i], "tags", <<>>)) : i \in 1..Len(projs)}

SidebarQueries == {<<>>, <<65>>, <<98>>, <<32>>}

TabsInit ==
    /\ projects_json \in ProjectFiles \ {Malformed}
    /\ experiences_json \in ExperienceFiles \ {Malformed}
    /\ resume_pdf \in BOOLEAN
    /\ asset_files \in AssetSets
    /\ HAVE_PYMUPDF \in BOOLEAN
    /\ now = 0
    /\ ticks = 0
    /\ LET out == load_projects(projects_json)
       IN  /\ load_projects_cache = Entry(out.value, out.elements, 0)
           /\ projects = Bound(out.value)
           /\ page = out.elements
    /\ LET out == load_experiences_with_ttl(experiences_json)
       IN  /\ load_experiences_cache = Entry(out.value, out.elements, 0)
           /\ experiences = Bound(out.value)
    /\ reads = [projects |-> 1, experiences |-> 1]
    /\ pc = "line46"
    /\ query = Unbound
    /\ selected = Unbound
    /\ widgets \in [wide : {TRUE}, viewer : {"Clean", "Standard"}, width : {600, 900},
                    layout : {"Feature", "Cards"}]
    /\ arg = NoCall
    /\ ret = NoCall

\* lines 46-56: the sidebar binds the toggle, the query and the selected tags
Sidebar ==
    /\ pc = "line46"
    /\ \E w \in BOOLEAN, q \in SidebarQueries, sel \in SUBSET all_tags(projects.value) :
           /\ widgets' = [widgets EXCEPT !.wide = w]
           /\ query' = Bound(q)
           /\ selected' = Bound(sel)
    /\ pc' = "line295"
    /\ UNCHANGED <<env_vars, load_projects_cache, load_experiences_cache, reads,
                   projects, experiences, page, arg, ret>>

TabStep(from, to, els) ==
    /\ pc = from
    /\ page' = page \o els
    /\ pc' = to
    /\ UNCHANGED <<env_vars, load_projects_cache, load_experiences_cache, reads,
                   projects, experiences, query, selected, widgets, arg, ret>>

\* lines 294-295
Tab1 ==
    TabStep("line295", "line297",
            render_showcase(projects.value, query.value, selected.value, widgets.wide,
                            asset_files))

\* lines 296-297
Tab2 ==
    TabStep("line297", "line299",
            render_resume(resume_pdf, HAVE_PYMUPDF, widgets.viewer, widgets.width,
                          ResumePages))

\* lines 298-299
Tab3 ==
    TabStep("line299", "line301",
            render_experiential(experiences.value, widgets.layout, asset_files))

\* lines 300-301
Tab4 ==
    TabStep("line301", "done", render_reflections("signature1.png" \in asset_files))

TabsNext == Sidebar \/ Tab1 \/ Tab2 \/ Tab3 \/ Tab4

SpecTabs == TabsInit /\ [][TabsNext]_vars

(***************************************************************************)
(* The functions applied to inputs drawn from bounded sets                 *)
(***************************************************************************)
\* no file is present and no run has happened
NoFiles ==
    /\ projects_json = Absent
    /\ experiences_json = Absent
    /\ resume_pdf = FALSE
    /\ asset_files = {}
    /\ HAVE_PYMUPDF = FALSE

MatchesInit ==
    /\ NoFiles
    /\ RunInit
    /\ \E p \in ProjectsOf(Titles, Blurbs, TagLists), q \in Queries, sel \in Selections :
           arg = [fn |-> "matches", p |-> p, query |-> q, selected |-> sel]
    /\ ret = NoCall

\* matches(p) with the globals query and selected as given
CallMatches ==
    /\ arg.fn = "matches"
    /\ ret = NoCall
    /\ ret' = [fn |-> "matches", value |-> matches(arg.p, arg.query, arg.selected)]
    /\ UNCHANGED <<env_vars, run_vars, query, selected, widgets, arg>>

SpecMatches == MatchesInit /\ [][CallMatches]_vars

\* titles "a", "A", "B", "b", "Ab"
SortTitles == {<<97>>, <<65>>, <<66>>, <<98>>, <<65, 98>>}

RECURSIVE ListsUpTo(_, _)
ListsUpTo(S, n) ==
    IF n = 0 THEN {<<>>}
    ELSE LET shorter == ListsUpTo(S, n - 1)
         IN  shorter \cup {Append(l, x) : l \in shorter, x \in S}

LoadInit ==
    /\ projects_json \in
           {Absent, Malformed}
           \cup {File("ok", l) : l \in ListsUpTo({[title |-> t] : t \in SortTitles}, MaxProjects)}
    /\ experiences_json = Absent
    /\ resume_pdf = FALSE
    /\ asset_files = {}
    /\ HAVE_PYMUPDF = FALSE
    /\ RunInit
    /\ arg = [fn |-> "load_projects"]
    /\ ret = NoCall

\* the body of load_projects on the file as it is
CallLoadProjects ==
    /\ arg.fn = "load_projects"
    /\ ret = NoCall
    /\ ret' = [fn |-> "load_projects", out |-> load_projects(projects_json)]
    /\ UNCHANGED <<env_vars, run_vars, query, selected, widgets, arg>>

SpecLoad == LoadInit /\ [][CallLoadProjects]_vars

(***************************************************************************)
(* Properties of matches                                                   *)
(***************************************************************************)
MatchesReturned == ret.fn = "matches"

TagsOf(p) == IF "tags" \in DOMAIN p THEN {p.tags[i] : i \in 1..Len(p.tags)} ELSE {}

\* C1: with a non-empty selected tag set T, matches(P) is false whenever T and
\* P's tags share no element, and with an empty query it is true exactly when
\* they share one; a project without a tags key has no tags, so every
\* non-empty T rejects it.
C1_TagRule ==
    (MatchesReturned /\ arg.selected # {}) =>
        /\ (arg.selected \cap TagsOf(arg.p) = {}) => ret.value = FALSE
        /\ arg.query = <<>> => (ret.value = TRUE <=> arg.selected \cap TagsOf(arg.p) # {})
        /\ "tags" \notin DOMAIN arg.p => ret.value = FALSE

\* a project tagged ["python","viz"] passes a filter that shares "python" with it
C1_Witness ==
    /\ MatchesReturned
    /\ arg.query = <<>>
    /\ "tags" \in DOMAIN arg.p /\ arg.p.tags = <<"python", "viz">>
    /\ arg.selected = {"python", "ml"}
    /\ ret.value = TRUE

BlurbOf(p) == IF "blurb" \in DOMAIN p THEN p.blurb ELSE <<>>

\* C2 as stated: with a non-empty query Q and no tag filter, matches(P) is true
\* exactly when lower(Q) is a substring of lower(title concatenated with blurb).
C2_TextRuleAsStated ==
    (MatchesReturned /\ arg.query # <<>> /\ arg.selected = {}) =>
        (ret.value = TRUE <=>
            contains(lower(arg.query), lower(arg.p.title \o BlurbOf(arg.p))))

\* C2 amended: with a non-empty query Q and no tag filter, matches(P) is true
\* exactly when lower(Q) is a substring of lower(title, one space, blurb), the
\* blurb taken as empty when the key is missing.
C2_TextRule ==
    (MatchesReturned /\ arg.query # <<>> /\ arg.selected = {}) =>
        (ret.value = TRUE <=>
            contains(lower(arg.query), lower(arg.p.title \o <<32>> \o BlurbOf(arg.p))))

\* a query that matches only through the separating space
C2_Witness ==
    /\ MatchesReturned
    /\ arg.query = <<32>>
    /\ arg.selected = {}
    /\ "blurb" \notin DOMAIN arg.p
    /\ ret.value = TRUE

\* q occurs in t when letters are compared without regard to case
InIgnoringCase(q, t) ==
    \E i \in 0..(Len(t) - Len(q)) :
        \A j \in 1..Len(q) : lower_char(q[j]) = lower_char(t[i + j])

\* C3: a query that is a substring of the title, compared case-insensitively,
\* matches with an empty tag filter, whatever the blurb and the tags are.
C3_TitleSubstringMatches ==
    (MatchesReturned /\ arg.selected = {} /\ InIgnoringCase(arg.query, arg.p.title)) =>
        ret.value = TRUE

\* the query occurs in the title only once case is ignored
C3_Witness ==
    /\ MatchesReturned
    /\ arg.selected = {}
    /\ arg.query # <<>>
    /\ InIgnoringCase(arg.query, arg.p.title)
    /\ ~contains(arg.query, arg.p.title)
    /\ "tags" \in DOMAIN arg.p /\ arg.p.tags # <<>>
    /\ ret.value = TRUE

(***************************************************************************)
(* Properties of load_projects                                             *)
(***************************************************************************)
Count(x, s) == Cardinality({i \in 1..Len(s) : s[i] = x})

IsPermutation(s, t) ==
    /\ Len(s) = Len(t)
    /\ \A i \in 1..Len(t) : Count(t[i], s) = Count(t[i], t)

\* the title with every upper-case letter replaced by its lower-case one
LoweredTitle(d) == [i \in 1..Len(d.title) |-> lower_char(d.title[i])]

\* C4: what load_projects returns for a project list in projects.json is a
\* permutation of the list in which the lowercased titles ascend.
C4_SortedByLowerTitle ==
    (ret.fn = "load_projects" /\ projects_json.state = "ok") =>
        /\ ret.out.raised = "none"
        /\ IsPermutation(ret.out.value, projects_json.data)
        /\ \A i \in 1..(Len(ret.out.value) - 1) :
               str_le(LoweredTitle(ret.out.value[i]), LoweredTitle(ret.out.value[i + 1]))

\* a file whose order load_projects had to change, upper case sorting among lower
C4_Witness ==
    /\ ret.fn = "load_projects"
    /\ projects_json = File("ok", <<[title |-> <<98>>], [title |-> <<66>>], [title |-> <<97>>]>>)
    /\ ret.out.value = <<[title |-> <<97>>], [title |-> <<98>>], [title |-> <<66>>]>>

(***************************************************************************)
(* Properties of a page evaluation                                         *)
(***************************************************************************)
\* the run has ended, and not because an input file failed to parse
RunEnded ==
    /\ pc \in {"stopped", "done"}
    /\ projects_json.state # "malformed"
    /\ experiences_json.state # "malformed"

Has(els, kind) == \E i \in 1..Len(els) : els[i].kind = kind

Shows(els, e) == \E i \in 1..Len(els) : els[i] = e

ProjectCards(els) == SelectSeq(els, LAMBDA e : e.kind = "card")

\* C5: in every page evaluation the showcase lays out exactly the loaded
\* projects that satisfy matches, in the loaded order, and shows the count
\* pair (number laid out, number loaded).
C5_ShowcaseIsFilteredSubsequence ==
    RunEnded =>
        /\ projects.bound /\ query.bound /\ selected.bound
        /\ LET filtered == filtered_projects(projects.value, query.value, selected.value)
               cards == ProjectCards(page)
           IN  /\ Shows(page, showing(Len(filtered), Len(projects.value)))
               /\ Len(filtered) <= Len(projects.value)
               /\ Len(cards) = Len(filtered)
               /\ \A i \in 1..Len(cards) :
                      cards[i].what.body = render_card(filtered[i], asset_files) \o <<Spacer>>

\* C6: with projects.json absent the page evaluation reaches the showcase,
\* which shows "Showing 0 of 0 projects", the error banner naming
\* projects.json is on the page, and the page does not crash.
C6_AbsentProjectsShowsEmptyShowcase ==
    (RunEnded /\ projects_json.state = "absent") =>
        /\ Shows(page, MissingProjectsError)
        /\ ~Has(page, "exception")
        /\ Shows(page, showing(0, 0))

\* C7 as stated: projects.json is read at most once in the life of the process.
C7_ReadAtMostOnce == reads.projects <= 1

\* C7 amended: once a load of projects.json has returned (the empty result of
\* an absent file included) the file is never read again and the memoized
\* result never changes, whatever is done to the file and however much time
\* passes, and every page evaluation that gets its projects gets that result.
C7_MemoizedAfterFirstResult ==
    /\ [](projects.bound =>
              (load_projects_cache.present /\ projects.value = load_projects_cache.value))
    /\ [][load_projects_cache.present =>
              (load_projects_cache' = load_projects_cache
                  /\ reads'.projects = reads.projects)]_vars

\* a later run still uses the empty result of the absent file, after the file
\* was created and more than the experiences' ttl has passed
C7_Witness ==
    /\ pc = "line44"
    /\ projects = Bound(<<>>)
    /\ load_projects_cache.loaded_at = 0
    /\ now > TTL
    /\ projects_json.state = "ok"
    /\ reads.projects = 1

\* C8: the views of every page evaluation use the experience sequence that
\* the ttl-memoized load returned, and an absent experiences.json gives the
\* empty sequence with no error on the page.
C8_ViewsUseLoadedExperiences ==
    RunEnded =>
        /\ experiences.bound
        /\ experiences.value = load_experiences_cache.value
        /\ ~Has(page, "exception")
        /\ \E mode \in {"Feature", "Cards"} :
               contains(render_experiential(experiences.value, mode, asset_files), page)

\* C9: in the resume view, with the file present and no rasterizer, nothing is
\* rasterized, no slider is shown, the clean mode shows the instruction, and
\* the download button and the embedded viewer are rendered; with the file
\* missing the view shows an error and no download, selector or viewer.
ResumeViewAsClaimed(els, exists, have_pymupdf) ==
    /\ (exists /\ ~have_pymupdf) =>
           /\ Has(els, "download_button") /\ Has(els, "iframe")
           /\ ~Has(els, "slider") /\ ~Has(els, "page_image")
           /\ Shows(els, El("viewer_radio", "Clean")) => Shows(els, El("info", "install PyMuPDF"))
    /\ ~exists =>
           /\ Shows(els, El("error", "Resume file not found"))
           /\ ~Has(els, "download_button") /\ ~Has(els, "viewer_radio")
           /\ ~Has(els, "iframe") /\ ~Has(els, "page_image")

C9_ResumeViewDegrades == RunEnded => ResumeViewAsClaimed(page, resume_pdf, HAVE_PYMUPDF)

\* what the sidebar widgets hold: text_input and multiselect start empty
QueryValue == IF query.bound THEN query.value ELSE <<>>

SelectedValue == IF selected.bound THEN selected.value ELSE {}

\* C10: every record the page renders whose image file is missing under
\* assets/ (a project that passes the filter, an experience in either layout)
\* gets a notice naming the file in place of the image and the rest of the
\* record after it, and the page evaluation does not fail.
C10_MissingImagePlaceholder ==
    (RunEnded /\ projects.bound /\ experiences.bound) =>
        /\ \A i \in 1..Len(projects.value) :
               LET p == projects.value[i]
               IN  (matches(p, QueryValue, SelectedValue) /\ p.image \notin asset_files) =>
                       /\ \E j \in 1..Len(page) :
                              /\ page[j].kind = "card"
                              /\ contains(<<El("missing_image", p.image)>>, page[j].what.body)
                              /\ contains(card_text(p), page[j].what.body)
                       /\ ~Has(page, "exception")
        /\ \A i \in 1..Len(experiences.value) :
               LET exp == experiences.value[i]
               IN  exp.image \notin asset_files =>
                       /\ \/ Shows(page, El("missing_image", exp.image))
                          \/ \E j \in 1..Len(page) :
                                 /\ page[j].kind = "experience_card"
                                 /\ Shows(page[j].what.body, El("missing_image", exp.image))
                       /\ ~Has(page, "exception")

\* with line 44 passed, the project cards alone do get the notice
ProjectCardsGetPlaceholder ==
    (pc = "done") =>
        \A i \in 1..Len(projects.value) :
            LET p == projects.value[i]
            IN  (matches(p, query.value, selected.value) /\ p.image \notin asset_files) =>
                    \E j \in 1..Len(page) :
                        /\ page[j].kind = "card"
                        /\ contains(<<El("missing_image", p.image)>>, page[j].what.body)
                        /\ contains(card_text(p), page[j].what.body)

\* with line 44 passed, an experience whose image is missing is rendered
\* without image and without notice
ExperiencesGetNoPlaceholder ==
    (pc = "done") =>
        \A i \in 1..Len(experiences.value) :
            /\ ~Shows(page, El("missing_image", experiences.value[i].image))
            /\ \A j \in 1..Len(page) :
                   page[j].kind = "experience_card" =>
                       ~Shows(page[j].what.body, El("missing_image", experiences.value[i].image))

\* what line 41 alone does: within 60 seconds of the last load the memoized
\* sequence is returned and the file is not read; from 60 seconds on the file
\* is read again; an absent file gives the empty sequence and no element
ExperiencesTtlAtLine41 ==
    [][(pc = "line41" /\ pc' # "line41") =>
           IF load_experiences_cache.present /\ now - load_experiences_cache.loaded_at < 60
           THEN /\ reads'.experiences = reads.experiences
                /\ experiences' = Bound(load_experiences_cache.value)
           ELSE /\ reads'.experiences = reads.experiences + 1
                /\ pc' = "line43" =>
                       /\ page' = page
                       /\ experiences' =
                              Bound(IF experiences_json.state = "absent" THEN <<>>
                                    ELSE experiences_json.data)]_vars

(***************************************************************************)
(* The long-form text of an experience                                     *)
(***************************************************************************)
\* the record's Feature rendering shows text t after its quick-facts list
FeatureShowsAfterFacts(els, exp, t) ==
    \E k \in 1..Len(els) :
        /\ els[k] = El("body", t)
        /\ get(exp, "facts", <<>>) # <<>> =>
               \E m \in 1..(k - 1) : els[m] = El("quick_facts", exp.facts)

\* the record's card shows text t in its "Read more" expander
CardShowsInReadMore(els, t) ==
    \E j \in 1..Len(els) :
        /\ els[j].kind = "experience_card"
        /\ Shows(els[j].what.body, El("read_more", t))

\* C11: every experience of experiences.json whose `body` key holds non-empty
\* text has that text on the page: in the Feature layout after the record's
\* quick facts, in the Cards layout inside the record's "Read more" expander.
C11_BodyDisplayed ==
    (RunEnded /\ experiences.bound) =>
        \A i \in 1..Len(experiences.value) :
            LET exp == experiences.value[i]
            IN  get(exp, "body", "") # "" =>
                    \/ FeatureShowsAfterFacts(page, exp, exp.body)
                    \/ CardShowsInReadMore(page, exp.body)

\* with line 44 passed, the text under the key `body_md` is what both layouts
\* show, in the places named above
BodyMdDisplayed ==
    (pc = "done") =>
        \A i \in 1..Len(experiences.value) :
            LET exp == experiences.value[i]
            IN  get(exp, "body_md", "") # "" =>
                    IF widgets.layout = "Feature"
                    THEN FeatureShowsAfterFacts(page, exp, exp.body_md)
                    ELSE CardShowsInReadMore(page, exp.body_md)

\* with line 44 passed, the text under the key `body` is shown by neither layout
BodyKeyNeverDisplayed ==
    (pc = "done") =>
        \A i \in 1..Len(experiences.value) :
            LET exp == experiences.value[i]
            IN  get(exp, "body", "") # "" =>
                    /\ ~Shows(page, El("body", exp.body))
                    /\ ~CardShowsInReadMore(page, exp.body)

====
